---- MODULE Spec2Model ----
(***************************************************************************)
(* Model of genocode/vectorized_datavis.py: the statistics helpers         *)
(* se_to_sd, ci_to_sd, datagen, correctdatatype, compounddata and          *)
(* percent_overlap, called by a client in any order.                       *)
(*                                                                         *)
(* Python values are records [t, n, s, items]: t is the runtime type,      *)
(* n the number it carries (an int in units, a float in thousandths),      *)
(* s the characters of a string, items the elements of a numpy array.      *)
(* Floating-point arithmetic is fixed-point arithmetic in thousandths.     *)
(* A call's outcome is a record whose field exc is "none" on a normal      *)
(* return and the Python exception's name otherwise, with the source line  *)
(* that raised it.  A random sample is abstracted to its length and the    *)
(* parameters of the normal distribution it was drawn from.                *)
(***************************************************************************)
EXTENDS Integers, Sequences, FiniteSets, TLC

VARIABLES fn, args, ret

vars == <<fn, args, ret>>

\* ---- bounds of the model ------------------------------------------------
MaxSize == 3
MaxCount == 2

\* ---- Python values --------------------------------------------------------
NoneV == [t |-> "NoneType", n |-> 0, s |-> <<>>, items |-> <<>>]

PyInt(k) == [t |-> "int", n |-> k, s |-> <<>>, items |-> <<>>]

PyFloat(m) == [t |-> "float", n |-> m, s |-> <<>>, items |-> <<>>]

PyStr(chars) == [t |-> "str", n |-> 0, s |-> chars, items |-> <<>>]

NpInt64(k) == [t |-> "int64", n |-> k, s |-> <<>>, items |-> <<>>]

NpFloat64(m) == [t |-> "float64", n |-> m, s |-> <<>>, items |-> <<>>]

NpStr(chars) == [t |-> "str_", n |-> 0, s |-> chars, items |-> <<>>]

NdArray(elems) == [t |-> "ndarray", n |-> 0, s |-> <<>>, items |-> elems]

\* isinstance(x, int): numpy's int64 is not a subclass of Python's int
IsInt(x) == x.t = "int"

\* a branch test that also takes integers: isinstance(x, (int, float))
IsFloatOrInt(x) == x.t \in {"float", "float64", "int"}

\* isinstance(x, float): numpy's float64 is a subclass of Python's float
IsFloat(x) == x.t \in {"float", "float64"}

\* isinstance(x, str): numpy's str_ is a subclass of Python's str
IsStr(x) == x.t \in {"str", "str_"}

IsNdArray(x) == x.t = "ndarray"

IsNumber(x) == x.t \in {"int", "float", "int64", "float64"}

DigitVal(c) ==
    CASE c = "0" -> 0 [] c = "1" -> 1 [] c = "2" -> 2 [] c = "3" -> 3
      [] c = "4" -> 4 [] c = "5" -> 5 [] c = "6" -> 6 [] c = "7" -> 7
      [] c = "8" -> 8 [] c = "9" -> 9

RECURSIVE ParseDigits(_, _)
\* the integer a run of decimal digits spells, continuing from acc
ParseDigits(chars, acc) ==
    IF chars = <<>> THEN acc
    ELSE ParseDigits(Tail(chars), acc * 10 + DigitVal(Head(chars)))

RECURSIVE DotAt(_, _)
\* position of the first "." in chars at or after i, 0 if there is none
DotAt(chars, i) ==
    IF i > Len(chars) THEN 0
    ELSE IF chars[i] = "." THEN i
    ELSE DotAt(chars, i + 1)

\* float("ddd.fff") in thousandths, for a well-formed unsigned decimal with
\* at most three fractional digits
ParseFloat(chars) ==
    LET d == DotAt(chars, 1)
        whole == IF d = 0 THEN chars ELSE SubSeq(chars, 1, d - 1)
        frac == IF d = 0 THEN <<>> ELSE SubSeq(chars, d + 1, Len(chars))
        pad == CASE Len(frac) = 0 -> 1000 [] Len(frac) = 1 -> 100
                 [] Len(frac) = 2 -> 10 [] OTHER -> 1
    IN ParseDigits(whole, 0) * 1000 + ParseDigits(frac, 0) * pad

\* Python's float(x) for a number or a numeric string
ToFloat(x) ==
    CASE x.t \in {"int", "int64"} -> PyFloat(x.n * 1000)
      [] x.t \in {"float", "float64"} -> PyFloat(x.n)
      [] x.t \in {"str", "str_"} -> PyFloat(ParseFloat(x.s))

\* the numeric value of a number, in thousandths
Num(x) == IF x.t \in {"int", "int64"} THEN x.n * 1000 ELSE x.n

RECURSIVE ISqrtSearch(_, _, _)
ISqrtSearch(x, lo, hi) ==
    IF lo >= hi THEN lo
    ELSE LET mid == (lo + hi + 1) \div 2
         IN IF mid * mid <= x THEN ISqrtSearch(x, mid, hi)
            ELSE ISqrtSearch(x, lo, mid - 1)

\* math.sqrt(size) in thousandths, rounded down
SqrtMilli(size) == ISqrtSearch(size * 1000000, 0, size * 1000)

\* ---- outcomes -------------------------------------------------------------
NoSample == [len |-> -1, mu |-> 0, sigma |-> 0]

Return(v) == [exc |-> "none", line |-> 0, val |-> v]

Raise(e, l) == [exc |-> e, line |-> l, val |-> NoneV]

\* ---- se_to_sd, ci_to_sd -----------------------------------------------------
se_to_sd(serror, size) == PyFloat((Num(serror) * SqrtMilli(size)) \div 1000)

\* zvals with the 85.0 entry left out
zvals_without_85 ==
    [c \in {99900, 99500, 99000, 95000, 90000, 80000} |->
        CASE c = 99900 -> 3291 [] c = 99500 -> 2807 [] c = 99000 -> 2807
          [] c = 95000 -> 1960 [] c = 90000 -> 1645 [] c = 80000 -> 1282]

\* the keys of zvals in thousandths, with their z-scores in thousandths
zvals ==
    [c \in {99900, 99500, 99000, 95000, 90000, 85000, 80000} |->
        CASE c = 99900 -> 3291 [] c = 99500 -> 2807 [] c = 99000 -> 2807
          [] c = 95000 -> 1960 [] c = 90000 -> 1645 [] c = 85000 -> 1645
          [] c = 80000 -> 1282]

ci_to_sd(lowerci, upperci, cival, size) ==
    IF ToFloat(cival).n \notin DOMAIN zvals THEN Raise("KeyError", 48)
    ELSE IF ~IsNumber(lowerci) \/ ~IsNumber(upperci) THEN Raise("TypeError", 49)
    ELSE Return(PyFloat((SqrtMilli(size) * (Num(upperci) - Num(lowerci)))
                            \div zvals[ToFloat(cival).n]))

\* ---- datagen ----------------------------------------------------------------
ReturnS(smp) == [exc |-> "none", line |-> 0, sample |-> smp]

RaiseS(e, l) == [exc |-> e, line |-> l, sample |-> NoSample]

\* isinstance(mean, None): None is not a type, so the call raises for every mean
isinstance_None(mean) == Raise("TypeError", 79)

\* np.random.normal(mean, sdev, size): loc and scale must be real numbers and
\* scale must not be negative
normal(mean, sdev, size) ==
    IF ~IsNumber(mean) \/ ~IsNumber(sdev) THEN RaiseS("TypeError", 83)
    ELSE IF Num(sdev) < 0 THEN RaiseS("ValueError", 83)
    ELSE ReturnS([len |-> size, mu |-> Num(mean), sigma |-> Num(sdev)])

datagen(mean, sdev, serror, lowerci, upperci, cival, size) ==
    LET ci == ci_to_sd(lowerci, upperci, cival, size)
        chk == isinstance_None(mean)
        mean1 == IF IsFloat(upperci) /\ chk.exc = "none" /\ chk.val.n = 1
                 THEN PyFloat((Num(upperci) + Num(lowerci)) \div 2) ELSE mean
        sdev1 == IF IsFloat(upperci) THEN ci.val ELSE sdev
        sdev2 == IF IsFloat(serror) THEN se_to_sd(serror, size) ELSE sdev1
    IN IF IsFloat(upperci) /\ ci.exc # "none" THEN RaiseS(ci.exc, ci.line)
       ELSE IF IsFloat(upperci) /\ chk.exc # "none" THEN RaiseS(chk.exc, chk.line)
       ELSE normal(mean1, sdev2, size)

\* ---- correctdatatype --------------------------------------------------------
\* one parameter's if / elif / else of correctdatatype
coerce(x) ==
    IF IsInt(x) THEN ToFloat(x)
    ELSE IF IsStr(x) THEN ToFloat(x)
    ELSE x

correctdatatype(mean, sdev, serror, upperci, lowerci) ==
    <<coerce(mean), coerce(sdev), coerce(serror), coerce(upperci), coerce(lowerci)>>

\* ---- compounddata -----------------------------------------------------------
ReturnC(smps) == [exc |-> "none", line |-> 0, samples |-> smps]

RaiseC(e, l) == [exc |-> e, line |-> l, samples |-> <<>>]

\* np.empty(count, dtype=object): count elements, each None
np_empty(count) == NdArray([i \in 1..count |-> NoneV])

\* a[i] fails on a value that is no array and on an index past the end
CanIndex(a, i) == IsNdArray(a) /\ i <= Len(a.items)

RECURSIVE compound_loop(_, _, _, _, _, _, _, _, _, _)
\* the for loop of compounddata from index i on (1-based), acc the samples so far
compound_loop(i, count, mean, sdev, serror, upperci, lowerci, cival, size, acc) ==
    IF i > count THEN ReturnC(acc)
    ELSE IF \E a \in {mean, sdev, serror, upperci, lowerci} : ~IsNdArray(a)
    THEN RaiseC("TypeError", 176)
    ELSE IF \E a \in {mean, sdev, serror, upperci, lowerci} : ~CanIndex(a, i)
    THEN RaiseC("IndexError", 176)
    ELSE LET f == correctdatatype(mean.items[i], sdev.items[i], serror.items[i],
                                  upperci.items[i], lowerci.items[i])
             d == datagen(f[1], f[2], f[3], f[5], f[4], cival, size)
         IN IF d.exc # "none" THEN RaiseC(d.exc, d.line)
            ELSE compound_loop(i + 1, count, mean, sdev, serror, upperci, lowerci,
                               cival, size, Append(acc, d.sample))

\* the if / elif of compounddata binds count only when one of the two is an array
has_count_mean_only(mean, upperci) == IsNdArray(mean)

has_count(mean, upperci) == IsNdArray(mean) \/ IsNdArray(upperci)

\* the standard errors with the caller's array kept when sdev is an array too
serror_arg_kept(mean, sdev, serror, count) ==
    IF IsNdArray(mean) THEN serror ELSE np_empty(count)

\* the standard errors the loop reads
serror_arg(mean, sdev, serror, count) ==
    IF IsNdArray(mean)
    THEN IF IsNdArray(sdev) THEN np_empty(count) ELSE serror
    ELSE np_empty(count)

\* the standard deviations the loop reads
sdev_arg(mean, sdev, serror, count) ==
    IF IsNdArray(mean)
    THEN IF IsNdArray(sdev) THEN sdev
         ELSE IF IsNdArray(serror) THEN np_empty(count) ELSE sdev
    ELSE np_empty(count)

compounddata(mean, sdev, serror, upperci, lowerci, cival, size) ==
    LET hasM == IsNdArray(mean)
        count == IF hasM THEN Len(mean.items) ELSE Len(upperci.items)
        mean1 == IF hasM THEN mean ELSE np_empty(count)
        sdev1 == sdev_arg(mean, sdev, serror, count)
        serror1 == serror_arg(mean, sdev, serror, count)
        upperci1 == IF hasM THEN np_empty(count) ELSE upperci
        lowerci1 == IF hasM THEN np_empty(count) ELSE lowerci
    IN IF ~has_count(mean, upperci) THEN RaiseC("UnboundLocalError", 173)
       ELSE compound_loop(1, count, mean1, sdev1, serror1, upperci1, lowerci1,
                          cival, size, <<>>)

\* ---- percent_overlap --------------------------------------------------------
\* math.erf(dm / (2.0 * sigma * sqrt(2.0))) in millionths: zero at zero, and
\* tabulated for the distances and deviations the model draws
ErfPpm(dm, sigma) ==
    CASE dm = 0 -> 0
      [] dm = 1000 /\ sigma = 3000 -> 132368
      [] dm = 1000 /\ sigma = 4000 -> 99476

\* the overlap of two normal distributions of different variance, in
\* millionths, tabulated for the distances and deviations the model draws
UnequalOverlapPpm(dm, sigmaX, sigmaY) ==
    CASE dm = 0 /\ sigmaX = 3000 /\ sigmaY = 4000 -> 861730
      [] dm = 1000 /\ sigmaX = 3000 /\ sigmaY = 4000 -> 829402

\* NormalDist(mu1, sigma1).overlap(NormalDist(mu2, sigma2)), in millionths
overlap(mu1, sigma1, mu2, sigma2) ==
    LET swap == sigma2 < sigma1 \/ (sigma2 = sigma1 /\ mu2 < mu1)
        Xmu == IF swap THEN mu2 ELSE mu1
        Xsigma == IF swap THEN sigma2 ELSE sigma1
        Ymu == IF swap THEN mu1 ELSE mu2
        Ysigma == IF swap THEN sigma1 ELSE sigma2
        dv == Ysigma * Ysigma - Xsigma * Xsigma
        dm == IF Ymu >= Xmu THEN Ymu - Xmu ELSE Xmu - Ymu
    IN IF sigma1 < 0 \/ sigma2 < 0 THEN Raise("StatisticsError", 337)
       ELSE IF Xsigma = 0 \/ Ysigma = 0 THEN Raise("StatisticsError", 337)
       ELSE IF dv = 0 THEN Return(PyFloat(1000000 - ErfPpm(dm, Xsigma)))
       ELSE Return(PyFloat(UnequalOverlapPpm(dm, Xsigma, Ysigma)))

TwoDigits(k) == IF k < 10 THEN "0" \o ToString(k) ELSE ToString(k)

\* '{0:1.2%}'.format(x) for x in millionths: x * 100 with two decimals and "%"
FormatPercent(ppm) ==
    LET bp == (ppm + 50) \div 100
    IN ToString(bp \div 100) \o "." \o TwoDigits(bp % 100) \o "%"

ReturnP(strs) == [exc |-> "none", line |-> 0, strings |-> strs]

RaiseP(e, l) == [exc |-> e, line |-> l, strings |-> <<>>]

\* the string for index i with dataset i compared against the first dataset
overlap_string_vs_first(i, mean, sdev) ==
    LET o == overlap(Num(mean.items[1]), Num(sdev.items[1]),
                     Num(mean.items[i + 1]), Num(sdev.items[i + 1]))
    IN IF o.exc # "none" THEN o
       ELSE Return("The overlap between dataset 1 and dataset " \o ToString(i)
                       \o " is " \o FormatPercent(o.val.n))

\* the string percent_overlap stores at Python index i
overlap_string(i, mean, sdev) ==
    LET o == overlap(Num(mean.items[i + 1]), Num(sdev.items[i + 1]),
                     Num(mean.items[i + 1]), Num(sdev.items[i + 1]))
    IN IF o.exc # "none" THEN o
       ELSE Return("The overlap between dataset 1 and dataset " \o ToString(i)
                       \o " is " \o FormatPercent(o.val.n))

percent_overlap(mean, sdev) ==
    LET count == Len(mean.items)
        failed == {i \in 0..(count - 1) : overlap_string(i, mean, sdev).exc # "none"}
    IN IF failed # {}
       THEN RaiseP(overlap_string(CHOOSE i \in failed : \A j \in failed : i <= j,
                                  mean, sdev).exc, 337)
       ELSE ReturnP([k \in 1..count |-> overlap_string(k - 1, mean, sdev).val])

\* ---- the inputs the client draws ----------------------------------------------
Sizes == 1..MaxSize

Counts == 0..MaxCount

Chars24 == <<"2", "4">>

Chars3p5 == <<"3", ".", "5">>

ScalarInputs ==
    {NoneV, PyInt(24), PyFloat(24500), PyStr(Chars3p5), NpInt64(3),
     NpFloat64(3870), NpStr(Chars24)}

LevelInputs ==
    {PyFloat(99900), PyFloat(99500), PyFloat(99000), PyFloat(95000),
     PyFloat(90000), PyFloat(85000), PyFloat(80000), PyFloat(50000),
     PyFloat(97500), PyFloat(95001), PyInt(95), PyInt(99), PyInt(70),
     NpInt64(80), PyStr(<<"9", "9", ".", "9">>), PyStr(<<"8", "5">>),
     PyStr(<<"9", "9", ".", "9", "5">>), PyStr(<<"9", "0", ".", "0">>)}

DigitChar(d) ==
    CASE d = 0 -> "0" [] d = 1 -> "1" [] d = 2 -> "2" [] d = 3 -> "3"
      [] d = 4 -> "4" [] d = 5 -> "5" [] d = 6 -> "6" [] d = 7 -> "7"
      [] d = 8 -> "8" [] d = 9 -> "9"

\* the decimal digits of k, 0 <= k < 100
IntChars(k) == IF k < 10 THEN <<DigitChar(k)>> ELSE <<DigitChar(k \div 10), DigitChar(k % 10)>>

Shapes == {"None", "scalar", "float64", "int64", "str_"}

\* an argument of compounddata: absent, a lone float, or an array of n elements
\* of one dtype holding first, first+1, ...
MkArg(shape, first, n) ==
    CASE shape = "None" -> NoneV
      [] shape = "scalar" -> PyFloat(first * 1000)
      [] shape = "float64" -> NdArray([i \in 1..n |-> NpFloat64((first + i - 1) * 1000 + 120)])
      [] shape = "int64" -> NdArray([i \in 1..n |-> NpInt64(first + i - 1)])
      [] shape = "str_" -> NdArray([i \in 1..n |-> NpStr(IntChars(first + i - 1))])

\* ---- the client's calls -------------------------------------------------------
\* the outcome slot of a call that has been issued and has not run yet
Pending == [exc |-> "pending", line |-> 0]

Args_se_to_sd ==
    {[serror |-> serror, size |-> size] :
        serror \in {PyFloat(500), PyFloat(1250), PyInt(2)}, size \in Sizes}

Args_ci_to_sd ==
    {[lowerci |-> lowerci, upperci |-> upperci, cival |-> cival, size |-> size] :
        lowerci \in {PyFloat(200), PyFloat(22000)},
        upperci \in {PyFloat(400), PyFloat(26000)},
        cival \in LevelInputs, size \in Sizes}

Args_datagen ==
    {[mean |-> mean, sdev |-> sdev, serror |-> serror, lowerci |-> lowerci,
      upperci |-> upperci, cival |-> cival, size |-> size] :
        mean \in {NoneV, PyFloat(24120), PyInt(25)},
        sdev \in {NoneV, PyFloat(3870), PyInt(3)},
        serror \in {NoneV, PyFloat(400), PyInt(1)},
        lowerci \in {NoneV, PyFloat(22000)},
        upperci \in {NoneV, PyFloat(26000), PyInt(26)},
        cival \in {PyFloat(95000), PyFloat(50000), PyInt(90)},
        size \in Sizes}

Args_correctdatatype ==
    {[mean |-> mean, sdev |-> sdev, serror |-> serror, upperci |-> upperci,
      lowerci |-> lowerci] :
        mean \in ScalarInputs, sdev \in ScalarInputs, serror \in ScalarInputs,
        upperci \in ScalarInputs, lowerci \in ScalarInputs}

Args_compounddata ==
    {[mean |-> MkArg(sm, 24, n), sdev |-> MkArg(sd, 3, n),
      serror |-> MkArg(se, 1, n), upperci |-> MkArg(su, 26, n),
      lowerci |-> MkArg(sl, 22, n), cival |-> cival, size |-> size] :
        n \in Counts, sm \in Shapes, sd \in Shapes, se \in Shapes, su \in Shapes,
        sl \in Shapes, cival \in {PyFloat(95000), PyFloat(50000)}, size \in Sizes}

Args_percent_overlap ==
    UNION {{[mean |-> NdArray([i \in 1..n |-> NpFloat64(mus[i])]),
             sdev |-> NdArray([i \in 1..n |-> NpFloat64(sigmas[i])])] :
                mus \in [1..n -> {24000, 25000}],
                sigmas \in [1..n -> {0, 3000, 4000}]} : n \in Counts}

\* the client has issued one call, with arguments of the function's kind
Init ==
    /\ ret = Pending
    /\ \/ fn = "se_to_sd" /\ args \in Args_se_to_sd
       \/ fn = "ci_to_sd" /\ args \in Args_ci_to_sd
       \/ fn = "datagen" /\ args \in Args_datagen
       \/ fn = "correctdatatype" /\ args \in Args_correctdatatype
       \/ fn = "compounddata" /\ args \in Args_compounddata
       \/ fn = "percent_overlap" /\ args \in Args_percent_overlap

Call_se_to_sd ==
    /\ fn = "se_to_sd" /\ ret = Pending
    /\ ret' = Return(se_to_sd(args.serror, args.size))
    /\ UNCHANGED <<fn, args>>

Call_ci_to_sd ==
    /\ fn = "ci_to_sd" /\ ret = Pending
    /\ ret' = ci_to_sd(args.lowerci, args.upperci, args.cival, args.size)
    /\ UNCHANGED <<fn, args>>

Call_datagen ==
    /\ fn = "datagen" /\ ret = Pending
    /\ ret' = datagen(args.mean, args.sdev, args.serror, args.lowerci,
                      args.upperci, args.cival, args.size)
    /\ UNCHANGED <<fn, args>>

Call_correctdatatype ==
    /\ fn = "correctdatatype" /\ ret = Pending
    /\ ret' = Return(correctdatatype(args.mean, args.sdev, args.serror,
                                     args.upperci, args.lowerci))
    /\ UNCHANGED <<fn, args>>

Call_compounddata ==
    /\ fn = "compounddata" /\ ret = Pending
    /\ ret' = compounddata(args.mean, args.sdev, args.serror, args.upperci,
                           args.lowerci, args.cival, args.size)
    /\ UNCHANGED <<fn, args>>

Call_percent_overlap ==
    /\ fn = "percent_overlap" /\ ret = Pending
    /\ ret' = percent_overlap(args.mean, args.sdev)
    /\ UNCHANGED <<fn, args>>

Next ==
    \/ Call_se_to_sd
    \/ Call_ci_to_sd
    \/ Call_datagen
    \/ Call_correctdatatype
    \/ Call_compounddata
    \/ Call_percent_overlap

Spec == Init /\ [][Next]_vars

\* the call has run
Done == ret.exc # "pending"

\* ---- the claims -------------------------------------------------------------
FloatTypes == {"float", "float64"}

TableLevels == {99900, 99500, 99000, 95000, 90000, 85000, 80000}

\* the dataset count of a compounddata call: len(mean) when mean is an array,
\* otherwise len(upperci)
DatasetCount ==
    IF args.mean.t = "ndarray" THEN Len(args.mean.items) ELSE Len(args.upperci.items)

\* an array of floats, the element type compounddata documents
FloatArray(a) ==
    a.t = "ndarray" /\ \A i \in 1..Len(a.items) : a.items[i].t = "float64"

\* the three input forms of compounddata: means with deviations, means with
\* standard errors, bounds only; each at a confidence level of the table
MeansAndSdevs ==
    /\ FloatArray(args.mean) /\ FloatArray(args.sdev)
    /\ args.serror = NoneV /\ args.upperci = NoneV /\ args.lowerci = NoneV

MeansAndSerrors ==
    /\ FloatArray(args.mean) /\ FloatArray(args.serror)
    /\ args.sdev = NoneV /\ args.upperci = NoneV /\ args.lowerci = NoneV

BoundsOnly ==
    /\ FloatArray(args.upperci) /\ FloatArray(args.lowerci)
    /\ args.mean = NoneV /\ args.sdev = NoneV /\ args.serror = NoneV

\* C1: compounddata returns one sample per dataset, each of length size, for
\* input given as means+sdevs, as means+serrors and as upper+lower bounds only.
C1_OneSamplePerDataset ==
    (/\ fn = "compounddata" /\ Done
     /\ ToFloat(args.cival).n \in TableLevels
     /\ (MeansAndSdevs \/ MeansAndSerrors \/ BoundsOnly))
        => /\ ret.exc = "none"
           /\ Len(ret.samples) = DatasetCount
           /\ \A i \in 1..Len(ret.samples) : ret.samples[i].len = args.size

\* C2: when datagen is given both a confidence-interval pair and a standard
\* error, the call succeeds and the deviation of the draw is
\* serror * sqrt(size).
C2_StandardErrorOverridesInterval ==
    (/\ fn = "datagen" /\ Done
     /\ args.upperci.t \in FloatTypes /\ args.lowerci.t \in FloatTypes
     /\ args.serror.t \in FloatTypes /\ args.mean.t \in FloatTypes
     /\ args.cival = PyFloat(95000))
        => /\ ret.exc = "none"
           /\ \E r \in 0..(args.size * 1000) :
                /\ r * r <= args.size * 1000000
                /\ (r + 1) * (r + 1) > args.size * 1000000
                /\ ret.sample.sigma = (args.serror.n * r) \div 1000

\* a DistributionSpec: the bounds come as a pair of floats or not at all, and
\* the confidence level is one of the table
WellFormedSpec ==
    /\ \/ args.upperci = NoneV /\ args.lowerci = NoneV
       \/ args.upperci.t \in FloatTypes /\ args.lowerci.t \in FloatTypes
    /\ ToFloat(args.cival).n \in TableLevels

\* the standard deviation of a datagen call is resolvable: given directly, or by
\* a standard error, or by a confidence-interval pair (with or without a mean)
SdevResolvable ==
    \/ args.sdev # NoneV /\ args.mean # NoneV
    \/ args.serror.t \in FloatTypes /\ args.mean # NoneV
    \/ args.upperci.t \in FloatTypes /\ args.lowerci.t \in FloatTypes

\* C3: for every resolvable standard deviation datagen returns, without error,
\* a sample of length size.
C3_ResolvableGivesSample ==
    (fn = "datagen" /\ Done /\ WellFormedSpec /\ SdevResolvable)
        => ret.exc = "none" /\ ret.sample.len = args.size

AllSdevPositive == \A i \in 1..Len(args.sdev.items) : args.sdev.items[i].n > 0

\* C4: percent_overlap returns exactly count-1 strings, the k-th naming
\* dataset k, and none for index 0.
C4_OneStringPerNonFirstDataset ==
    (fn = "percent_overlap" /\ Done /\ Len(args.mean.items) >= 1 /\ AllSdevPositive)
        => /\ ret.exc = "none"
           /\ Len(ret.strings) = Len(args.mean.items) - 1
           /\ \A k \in 1..Len(ret.strings) :
                \E pct \in {"100.00%", "86.17%", "86.76%", "82.94%", "90.05%"} :
                    ret.strings[k] = "The overlap between dataset 1 and dataset "
                                        \o ToString(k) \o " is " \o pct

\* C5: ci_to_sd returns a float exactly when float(cival) is one of 99.9, 99.5,
\* 99.0, 95.0, 90.0, 85.0, 80.0, and otherwise raises the lookup miss (KeyError)
\* without a value.
C5_LevelInTableOrLookupMiss ==
    (fn = "ci_to_sd" /\ Done)
        => /\ (ret.exc = "none") <=> (ToFloat(args.cival).n \in TableLevels)
           /\ ret.exc = "none" => ret.val.t = "float"
           /\ ret.exc # "none" => ret.exc = "KeyError" /\ ret.val = NoneV

\* C5 witness: a level given as a string that is not in the table was refused
C5_Witness ==
    /\ fn = "ci_to_sd" /\ Done
    /\ args.cival.t = "str" /\ ret.exc = "KeyError"

\* C6: compounddata fails for want of a dataset count (UnboundLocalError on
\* count), with no samples, exactly when neither mean nor upperci is an array.
C6_NoCountExactlyWhenNoArray ==
    (fn = "compounddata" /\ Done)
        => /\ (ret.exc = "UnboundLocalError")
                <=> (args.mean.t # "ndarray" /\ args.upperci.t # "ndarray")
           /\ ret.exc = "UnboundLocalError" => ret.samples = <<>>

\* C6 witness: sdev, serror and lowerci were arrays and the call still failed
C6_Witness ==
    /\ fn = "compounddata" /\ Done /\ ret.exc = "UnboundLocalError"
    /\ args.sdev.t = "ndarray" /\ args.serror.t = "ndarray"
    /\ args.lowerci.t = "ndarray" /\ Len(args.sdev.items) > 0

\* C7: datagen fails at the draw (TypeError of np.random.normal on a None
\* scale), with no sample, whenever sdev is not given and neither the upperci
\* branch test nor the serror branch test is taken.
C7_NoSdevFailsAtDraw ==
    (/\ fn = "datagen" /\ Done /\ args.sdev = NoneV
     /\ args.upperci.t \notin FloatTypes /\ args.serror.t \notin FloatTypes)
        => ret.exc = "TypeError" /\ ret.line = 83 /\ ret.sample = NoSample

\* C7 witness: a standard error and an upper bound were given as integers, so
\* neither branch test recognised them, and the call failed
C7_Witness ==
    /\ fn = "datagen" /\ Done /\ args.sdev = NoneV
    /\ args.serror = PyInt(1) /\ args.upperci = PyInt(26) /\ args.mean # NoneV
    /\ ret.exc = "TypeError"

\* the five parameters of a correctdatatype call, in the order of its result
Param(k) ==
    CASE k = 1 -> args.mean [] k = 2 -> args.sdev [] k = 3 -> args.serror
      [] k = 4 -> args.upperci [] k = 5 -> args.lowerci

\* C8: correctdatatype maps, for each parameter on its own, None to None and
\* every number or numeric string to a float of the same numeric value.
C8_EveryNumberBecomesFloat ==
    (fn = "correctdatatype" /\ Done)
        => \A k \in 1..5 :
              IF Param(k) = NoneV THEN ret.val[k] = NoneV
              ELSE /\ ret.val[k].t \in FloatTypes
                   /\ ret.val[k].n = ToFloat(Param(k)).n

C10_MeansAndSdevsDecide ==
    (fn = "compounddata" /\ Done /\ args.mean.t = "ndarray" /\ args.sdev.t = "ndarray")
        => /\ ret.exc = "none"
           /\ Len(ret.samples) = Len(args.mean.items)
           /\ \A i \in 1..Len(ret.samples) :
                /\ ret.samples[i].mu = ToFloat(args.mean.items[i]).n
                /\ ret.samples[i].sigma = ToFloat(args.sdev.items[i]).n

\* C10 witness: the caller also passed standard errors and both bounds as float
\* arrays, and every dataset was drawn
C10_Witness ==
    /\ fn = "compounddata" /\ Done /\ ret.exc = "none"
    /\ args.mean.t = "ndarray" /\ args.sdev.t = "ndarray"
    /\ args.serror.t = "ndarray" /\ args.upperci.t = "ndarray"
    /\ args.lowerci.t = "ndarray"
    /\ Len(ret.samples) >= 2
    /\ args.serror.items[1].t = "float64" /\ args.upperci.items[1].t = "float64"

====
